---------------------------- MODULE Spec2Model ----------------------------
(***************************************************************************)
(* Cart, order placement and order lifecycle of the grocery storefront     *)
(* backend, as a state machine over the document store.                    *)
(*                                                                         *)
(* Every request handler is an async function: between two awaited store   *)
(* calls other requests may run.  Each awaited store call is one action;   *)
(* the synchronous code between two awaits belongs to the action of the    *)
(* await that precedes it.  The arrival of a request is merged with its    *)
(* first store call (nothing is observable in between).                    *)
(***************************************************************************)
EXTENDS Integers, Sequences, FiniteSets, TLC

\* ----------------------------------------------------------------- helpers
Range(s) == {s[i] : i \in DOMAIN s}

Min(S) == CHOOSE x \in S : \A y \in S : x <= y

RECURSIVE SeqsUpTo(_, _)
SeqsUpTo(S, n) ==
  IF n = 0 THEN {<<>>}
  ELSE LET shorter == SeqsUpTo(S, n - 1)
       IN shorter \cup {Append(s, x) : s \in {t \in shorter : Len(t) = n - 1}, x \in S}

\* ------------------------------------------------------------------ bounds
MaxUnits == 2        \* largest totalUnits an admin gives a product
MaxQty == 2          \* largest quantity of one selected line
MaxSel == 2          \* most lines in one selectedProducts list
MaxOrders == 2       \* most placements accepted in a run of interleaved requests
MaxSeqOrders == 1    \* most placements accepted in a run of requests one at a time
MaxFailures == 1     \* most store calls that fail in a run
MaxCartItems == 2    \* most CartItem documents ever created in a run
MaxCatalogOrders == 2  \* most placements accepted in a run with catalogue updates
MaxUpdates == 2      \* most updateProduct requests accepted in a run

Products == {"p1", "p2"}          \* product ids known to clients
Users == {"u1"}                   \* authenticated users
Reqs == {"r1", "r2"}              \* requests in flight at the same time
OrderIds == 1..MaxOrders          \* order ids a client may name
Qtys == 1..MaxQty                 \* quantities a client selects
UpdateQtys == (0 - 1)..MaxQty     \* quantities a client sends to updateCartQuantity
Units == 0..MaxUnits              \* totalUnits an admin submits
Lines == [productId : Products, quantity : Qtys]
Selections == SeqsUpTo(Lines, MaxSel)
\* Selections of one product whose quantities may be 0 or negative.
SignedSelections == SeqsUpTo([productId : {"p1"}, quantity : (0 - 1)..1], MaxSel)
PaymentMethods == {"Cash", "QR", "Card"}
UnitPrice == 1                    \* the price of every product where prices play no part
Prices == {2}                     \* list prices an admin submits
Discounts == {0, 50}              \* discounts (percent) an admin submits
\* Bodies of updateProduct: price and discount, with or without totalUnits.
Bodies ==
  {b \in [price : Prices, discount : Discounts, hasTotalUnits : BOOLEAN, totalUnits : Units] :
     ~b.hasTotalUnits => b.totalUnits = 0}
RequestedStatuses == {"Pending", "Delivered", "Cancelled", "Returned"}

\* ------------------------------------------------------------------- state
VARIABLES
  products,    \* Product collection: product id -> document
  carts,       \* Cart collection, in insertion order
  cartItems,   \* CartItem collection, in insertion order (deleted ones flagged)
  orderItems,  \* OrderItem collection, in insertion order
  orders,      \* Order collection, in insertion order
  req,         \* per request slot: handler position, arguments, local variables
  placed,      \* number of placeOrderFromCart requests accepted so far
  failures,    \* number of store calls that have failed so far
  last,        \* the latest completed request, if a successful placement (observation only)
  ledger,      \* per product: units that answered placements took, less the units
               \* that answered cancellations gave back (observation only)
  updates      \* number of updateProduct requests accepted so far

vars == <<products, carts, cartItems, orderItems, orders, req, placed, failures, last, ledger, updates>>

\* A Product document (productSchema); exists = FALSE stands for "no document".
NoProduct ==
  [exists |-> FALSE, price |-> 0, totalUnits |-> 0, remainingUnits |-> 0, soldUnits |-> 0]

\* The whole store, as one value.
Store ==
  [products |-> products, carts |-> carts, cartItems |-> cartItems,
   orderItems |-> orderItems, orders |-> orders]

NoSnap ==
  [taken |-> FALSE, products |-> [p \in Products |-> NoProduct], carts |-> <<>>,
   cartItems |-> <<>>, orderItems |-> <<>>, orders |-> <<>>]

\* The store as a request finds it when it arrives with no other request in
\* flight (with others in flight there is no state "before" to compare with).
Snapshot ==
  IF \A q \in DOMAIN req : req[q].pc = "idle" THEN [taken |-> TRUE] @@ Store ELSE NoSnap

\* An HTTP response: status code and the body fields the claims read.
Response(code, msg) ==
  [code |-> code, msg |-> msg, availableStock |-> 0, currentCartQuantity |-> 0,
   orderId |-> 0, totalAmount |-> 0]

NoResponse == Response(0, "")

\* The populated order a lifecycle handler holds in memory.
NoOrderDoc == [status |-> "", items |-> <<>>]

\* last: the order a successful placement created and the products it found,
\* when that placement is the request that completed most recently.
NoPlacement == [orderId |-> 0, before |-> [p \in Products |-> NoProduct]]

\* The body of an updateProduct request, and the update document it computes.
NoBody == [price |-> 0, discount |-> 0, hasTotalUnits |-> FALSE, totalUnits |-> 0]

NoUpdate == [price |-> 0, totalUnits |-> 0, remainingUnits |-> 0]

IdleReq ==
  [pc |-> "idle", op |-> "", userId |-> "", productId |-> "", orderId |-> 0,
   status |-> "", sel |-> <<>>, paymentMethod |-> "",
   quantity |-> 0, product |-> NoProduct, cart |-> 0, item |-> 0,
   heldQuantity |-> 0, newQuantity |-> 0, body |-> NoBody, update |-> NoUpdate,
   i |-> 0, orderItems |-> <<>>, totalAmount |-> 0, order |-> NoOrderDoc,
   res |-> NoResponse, pre |-> NoSnap]

Idle(r) == req[r].pc = "idle"

\* res.status(code).json(...): the handler ends; what it held of the request and
\* of the order it read is kept for the response, the other locals are dead.
Done(q, response) ==
  [IdleReq EXCEPT !.pc = "done", !.op = q.op, !.userId = q.userId,
                  !.productId = q.productId, !.orderId = q.orderId,
                  !.status = q.status, !.order = q.order, !.sel = q.sel,
                  !.quantity = q.quantity, !.body = q.body,
                  !.paymentMethod = q.paymentMethod,
                  !.orderItems = q.orderItems, !.i = q.i,
                  !.res = response, !.pre = q.pre]

\* A request arrives and runs up to its first await.
Arrive(op) == [IdleReq EXCEPT !.op = op, !.pre = Snapshot]

InFlight(op) == {q \in Reqs : req[q].op = op /\ req[q].pc \notin {"idle", "done"}}

StoreUnchanged == UNCHANGED <<products, carts, cartItems, orderItems, orders>>

\* ------------------------------------------------------------------- Init
Init ==
  /\ products = [p \in Products |-> NoProduct]
  /\ carts = <<>>
  /\ cartItems = <<>>
  /\ orderItems = <<>>
  /\ orders = <<>>
  /\ req = [r \in Reqs |-> IdleReq]
  /\ placed = 0
  /\ failures = 0
  /\ last = NoPlacement
  /\ ledger = [p \in Products |-> 0]
  /\ updates = 0

\* ---------------------------------------------------------- createProduct
\* createProduct: one awaited save of a new document (the category lookup and
\* the price/discount arithmetic do not touch stock).
\* let finalPrice = price; if (discount) finalPrice = price - (price * discount) / 100
\* (the inputs are chosen so that the division is exact).
FinalPrice(price, discount) ==
  IF discount # 0 THEN price - (price * discount) \div 100 ELSE price

NewProduct(totalUnits, price, discount) ==
  [exists |-> TRUE, price |-> FinalPrice(price, discount), totalUnits |-> totalUnits,
   remainingUnits |-> totalUnits, soldUnits |-> 0]

CreateProduct(p, totalUnits, price, discount) ==
  /\ ~products[p].exists
  /\ totalUnits # 0 /\ ~(totalUnits < 0)
  /\ products' = [products EXCEPT ![p] = NewProduct(totalUnits, price, discount)]
  /\ last' = NoPlacement
  /\ UNCHANGED <<carts, cartItems, orderItems, orders, req, placed, failures, ledger, updates>>

\* ---------------------------------------------------------- updateProduct
\* The update document of updateProduct: price: finalPrice,
\* totalUnits: totalUnits || existingProduct.totalUnits, remainingUnits: newRemainingUnits.
ProductUpdate(existing, body) ==
  [price |-> FinalPrice(body.price, body.discount),
   totalUnits |-> IF body.hasTotalUnits /\ body.totalUnits # 0
                  THEN body.totalUnits ELSE existing.totalUnits,
   remainingUnits |-> IF body.hasTotalUnits
                      THEN existing.remainingUnits + (body.totalUnits - existing.totalUnits)
                      ELSE existing.remainingUnits]

\* Arrival, Product.findById(id), the validation against soldUnits and the
\* computation of the update document.
UpdateProduct(r, p, body, maxUpdates) ==
  /\ Idle(r)
  /\ updates < maxUpdates
  /\ updates' = updates + 1
  /\ LET q == [Arrive("updateProduct") EXCEPT !.productId = p, !.body = body]
         existing == products[p]
     IN req' = [req EXCEPT ![r] =
                  IF ~existing.exists
                  THEN Done(q, Response(404, "Product not found"))
                  ELSE IF body.hasTotalUnits /\ body.totalUnits < existing.soldUnits
                  THEN Done(q, Response(400, "Total units cannot be less than sold units"))
                  ELSE [q EXCEPT !.pc = "up_save", !.update = ProductUpdate(existing, body)]]
  /\ StoreUnchanged /\ UNCHANGED <<placed, failures, last, ledger>>

\* Product.findByIdAndUpdate(id, { price, totalUnits, remainingUnits, ... }), then the 200.
UpSave(r) ==
  /\ req[r].pc = "up_save"
  /\ products' = [products EXCEPT ![req[r].productId] =
                    IF @.exists
                    THEN [@ EXCEPT !.price = req[r].update.price,
                                   !.totalUnits = req[r].update.totalUnits,
                                   !.remainingUnits = req[r].update.remainingUnits]
                    ELSE @]
  /\ req' = [req EXCEPT ![r] = Done(req[r], Response(200, "Product updated successfully"))]
  /\ UNCHANGED <<carts, cartItems, orderItems, orders, placed, failures, last, ledger, updates>>


\* ---------------------------------------------------------------- addToCart
\* Cart.findOne({ userId }): the first matching document, 0 for null.
FindCart(u) ==
  LET hits == {c \in DOMAIN carts : carts[c].userId = u}
  IN IF hits = {} THEN 0 ELSE Min(hits)

\* CartItem.findOne({ cartId, productId }): the first matching document, 0 for null.
FindCartItem(c, p) ==
  LET hits == {k \in DOMAIN cartItems :
                 cartItems[k].live /\ cartItems[k].cartId = c /\ cartItems[k].productId = p}
  IN IF hits = {} THEN 0 ELSE Min(hits)

\* What is left of a deleted CartItem: its id stays taken, its content is gone.
DeletedCartItem == [cartId |-> 0, productId |-> "", quantity |-> 0, live |-> FALSE]

\* The Cart schema as the data model states it: one cart per user.  A save
\* that would store a second cart of user u is refused by the store.
CartIndexAllows(u) == \A c \in DOMAIN carts : carts[c].userId # u

\* A CartItem schema without the uniqueness the data model states.
CartItemIndexAllows_None(c, p) == TRUE

\* The CartItem schema as the data model states it: one line per cart and product.
CartItemIndexAllows(c, p) == FindCartItem(c, p) = 0

\* The CartItem schema as the data model states it: quantity >= 1, validated on save.
CartItemValid(quantity) == quantity >= 1

\* A repeat add that forgets the increment.
NewQuantity_Same(k) == IF k # 0 THEN cartItems[k].quantity ELSE 1

\* const newQuantity = existingCartItem ? existingCartItem.quantity + 1 : 1
NewQuantity(k) == IF k # 0 THEN cartItems[k].quantity + 1 ELSE 1

\* A stock check that is off by one.
ExceedsStock_AtLeast(newQuantity, product) == newQuantity >= product.remainingUnits

\* if (newQuantity > product.remainingUnits)
ExceedsStock(newQuantity, product) == newQuantity > product.remainingUnits

\* The 400 body of addToCart.
StockExceeded(product, k) ==
  [Response(400, "stock exceeded") EXCEPT
     !.availableStock = product.remainingUnits,
     !.currentCartQuantity = IF k # 0 THEN cartItems[k].quantity ELSE 0]

\* A success body of addToCart that reports the stock net of the cart.
Added_NetOfCart(product, newQuantity) ==
  [Response(201, "added") EXCEPT
     !.availableStock = product.remainingUnits - newQuantity,
     !.currentCartQuantity = newQuantity]

\* The 201 body of addToCart.
Added(product, newQuantity) ==
  [Response(201, "added") EXCEPT
     !.availableStock = product.remainingUnits,
     !.currentCartQuantity = newQuantity]

\* Arrival, then Product.findById(productId).
AddToCart(r, u, p) ==
  /\ Idle(r)
  /\ Len(cartItems) + Cardinality(InFlight("addToCart")) < MaxCartItems
  /\ LET q == [Arrive("addToCart") EXCEPT !.userId = u, !.productId = p]
     IN req' = [req EXCEPT ![r] =
                  IF ~products[p].exists
                  THEN Done(q, Response(404, "Product not found"))
                  ELSE [q EXCEPT !.pc = "atc_cart", !.product = products[p]]]
  /\ StoreUnchanged /\ UNCHANGED <<placed, failures, last, ledger, updates>>

\* Cart.findOne({ userId }); a missing cart is built in memory.
AtcFindCart(r) ==
  /\ req[r].pc = "atc_cart"
  /\ LET c == FindCart(req[r].userId)
     IN req' = [req EXCEPT ![r].cart = c,
                           ![r].pc = IF c = 0 THEN "atc_newcart" ELSE "atc_item"]
  /\ StoreUnchanged /\ UNCHANGED <<placed, failures, last, ledger, updates>>

\* cart = new Cart({ userId, cartItems: [] }); await cart.save(); a save the
\* schema refuses throws, and the catch answers 500.
AtcSaveNewCart(r) ==
  /\ req[r].pc = "atc_newcart"
  /\ IF CartIndexAllows(req[r].userId)
     THEN /\ carts' = Append(carts, [userId |-> req[r].userId, cartItems |-> <<>>])
          /\ req' = [req EXCEPT ![r].cart = Len(carts) + 1, ![r].pc = "atc_item"]
     ELSE /\ carts' = carts
          /\ req' = [req EXCEPT ![r] = Done(req[r], Response(500, "Internal server error"))]
  /\ UNCHANGED <<products, cartItems, orderItems, orders, placed, failures, last, ledger, updates>>

\* CartItem.findOne(...), the new quantity and the stock check.
AtcFindItem(r) ==
  /\ req[r].pc = "atc_item"
  /\ LET k == FindCartItem(req[r].cart, req[r].productId)
         n == NewQuantity(k)
     IN req' = [req EXCEPT ![r] =
                  IF ExceedsStock(n, req[r].product)
                  THEN Done(req[r], StockExceeded(req[r].product, k))
                  ELSE [req[r] EXCEPT !.item = k, !.newQuantity = n,
                                      !.pc = IF k = 0 THEN "atc_saveitem" ELSE "atc_update"]]
  /\ StoreUnchanged /\ UNCHANGED <<placed, failures, last, ledger, updates>>

\* new CartItem({ cartId, productId, quantity: 1 }); await cartItem.save(); a
\* save the schema refuses throws, and the catch answers 500.
AtcSaveItem(r) ==
  /\ req[r].pc = "atc_saveitem"
  /\ IF CartItemValid(1) /\ CartItemIndexAllows(req[r].cart, req[r].productId)
     THEN /\ cartItems' = Append(cartItems, [cartId |-> req[r].cart,
                                             productId |-> req[r].productId,
                                             quantity |-> 1, live |-> TRUE])
          /\ req' = [req EXCEPT ![r].item = Len(cartItems) + 1, ![r].pc = "atc_push"]
     ELSE /\ cartItems' = cartItems
          /\ req' = [req EXCEPT ![r] = Done(req[r], Response(500, "Internal server error"))]
  /\ UNCHANGED <<products, carts, orderItems, orders, placed, failures, last, ledger, updates>>

\* cart.cartItems.push(cartItem._id); await cart.save(); then the 201.
AtcPushCart(r) ==
  /\ req[r].pc = "atc_push"
  /\ carts' = [carts EXCEPT ![req[r].cart].cartItems = Append(@, req[r].item)]
  /\ req' = [req EXCEPT ![r] = Done(req[r], Added(req[r].product, req[r].newQuantity))]
  /\ UNCHANGED <<products, cartItems, orderItems, orders, placed, failures, last, ledger, updates>>

\* existingCartItem.quantity = newQuantity; await existingCartItem.save(); then
\* the 201.  Saving a document deleted meanwhile throws: the catch answers 500.
AtcUpdate(r) ==
  /\ req[r].pc = "atc_update"
  /\ IF cartItems[req[r].item].live
     THEN /\ cartItems' = [cartItems EXCEPT ![req[r].item].quantity = req[r].newQuantity]
          /\ req' = [req EXCEPT ![r] = Done(req[r], Added(req[r].product, req[r].newQuantity))]
     ELSE /\ cartItems' = cartItems
          /\ req' = [req EXCEPT ![r] = Done(req[r], Response(500, "Internal server error"))]
  /\ UNCHANGED <<products, carts, orderItems, orders, placed, failures, last, ledger, updates>>


\* ------------------------------------------------------ updateCartQuantity
\* Arrival, then Cart.findOne({ userId }).
UpdateCartQuantity(r, u, p, quantity) ==
  /\ Idle(r)
  /\ LET q == [Arrive("updateCartQuantity") EXCEPT
                 !.userId = u, !.productId = p, !.quantity = quantity]
         c == FindCart(u)
     IN req' = [req EXCEPT ![r] =
                  IF c = 0
                  THEN Done(q, Response(404, "Cart not found"))
                  ELSE [q EXCEPT !.pc = "ucq_item", !.cart = c]]
  /\ StoreUnchanged /\ UNCHANGED <<placed, failures, last, ledger, updates>>

\* CartItem.findOne({ cartId: cart._id, productId })
UcqFindItem(r) ==
  /\ req[r].pc = "ucq_item"
  /\ LET k == FindCartItem(req[r].cart, req[r].productId)
     IN req' = [req EXCEPT ![r] =
                  IF k = 0
                  THEN Done(req[r], Response(404, "Cart item not found"))
                  ELSE [req[r] EXCEPT !.pc = "ucq_save", !.item = k,
                                      !.heldQuantity = cartItems[k].quantity]]
  /\ StoreUnchanged /\ UNCHANGED <<placed, failures, last, ledger, updates>>

\* The document cartItem.save() leaves for a line that held quantity `held` and
\* was assigned `quantity`: nothing is written when no path was modified.
SaveQuantity(item, held, quantity) ==
  IF quantity = held THEN cartItems
  ELSE [cartItems EXCEPT ![item].quantity = quantity]

\* cartItem.quantity = quantity; await cartItem.save(); then the 200.  A value
\* the schema refuses, or a document deleted meanwhile, makes save() throw.
UcqSave(r) ==
  /\ req[r].pc = "ucq_save"
  /\ LET modified == req[r].quantity # req[r].heldQuantity
         throws == modified /\ (~CartItemValid(req[r].quantity) \/ ~cartItems[req[r].item].live)
     IN IF throws
        THEN /\ cartItems' = cartItems
             /\ req' = [req EXCEPT ![r] = Done(req[r], Response(500, "Internal server error"))]
        ELSE /\ cartItems' = SaveQuantity(req[r].item, req[r].heldQuantity, req[r].quantity)
             /\ req' = [req EXCEPT ![r] =
                          Done(req[r], Response(200, "Cart updated successfully"))]
  /\ UNCHANGED <<products, carts, orderItems, orders, placed, failures, last, ledger, updates>>

\* ---------------------------------------------------------- removeFromCart
\* Arrival, then Cart.findOne({ userId }).
RemoveFromCart(r, u, p) ==
  /\ Idle(r)
  /\ LET q == [Arrive("removeFromCart") EXCEPT !.userId = u, !.productId = p]
         c == FindCart(u)
     IN req' = [req EXCEPT ![r] =
                  IF c = 0
                  THEN Done(q, Response(404, "Cart not found"))
                  ELSE [q EXCEPT !.pc = "rfc_delete", !.cart = c]]
  /\ StoreUnchanged /\ UNCHANGED <<placed, failures, last, ledger, updates>>

\* CartItem.findOneAndDelete({ cartId: cart._id, productId }): one atomic call.
RfcDelete(r) ==
  /\ req[r].pc = "rfc_delete"
  /\ LET k == FindCartItem(req[r].cart, req[r].productId)
     IN IF k = 0
        THEN /\ cartItems' = cartItems
             /\ req' = [req EXCEPT ![r] = Done(req[r], Response(404, "Item not found in cart"))]
        ELSE /\ cartItems' = [cartItems EXCEPT ![k] = DeletedCartItem]
             /\ req' = [req EXCEPT ![r].pc = "rfc_pull", ![r].item = k]
  /\ UNCHANGED <<products, carts, orderItems, orders, placed, failures, last, ledger, updates>>

\* A pull that takes the first reference, whichever it is.
Pull_First(refs, id) == IF refs = <<>> THEN refs ELSE Tail(refs)

\* cart.cartItems.pull(id): the array without the references equal to id.
Pull(refs, id) == SelectSeq(refs, LAMBDA ref : ref # id)

\* cart.cartItems.pull(cartItem._id); await cart.save(): a $pull on the stored
\* array; then the 200.
RfcPull(r) ==
  /\ req[r].pc = "rfc_pull"
  /\ carts' = [carts EXCEPT ![req[r].cart].cartItems = Pull(@, req[r].item)]
  /\ req' = [req EXCEPT ![r] = Done(req[r], Response(200, "Item removed from cart"))]
  /\ UNCHANGED <<products, cartItems, orderItems, orders, placed, failures, last, ledger, updates>>

\* ------------------------------------------------------------------ getCart
\* Arrival, then Cart.findOne({ userId }).populate(...): a read, then the 200
\* (an absent or empty cart is answered with an empty list).
GetCart(r, u) ==
  /\ Idle(r)
  /\ req' = [req EXCEPT ![r] =
               Done([Arrive("getCart") EXCEPT !.userId = u], Response(200, "cart"))]
  /\ StoreUnchanged /\ UNCHANGED <<placed, failures, last, ledger, updates>>

\* ---------------------------------------------------------------- getOrders
\* Arrival with req.user set, then Order.find({ userId }).populate(...): a
\* read, then the 200.
GetOrders(r, u) ==
  /\ Idle(r)
  /\ req' = [req EXCEPT ![r] =
               Done([Arrive("getOrders") EXCEPT !.userId = u], Response(200, "orders"))]
  /\ StoreUnchanged /\ UNCHANGED <<placed, failures, last, ledger, updates>>

\* ------------------------------------------------- requests without req.user
\* The operations that take the user from req.user.
IdentityOps ==
  {"addToCart", "updateCartQuantity", "removeFromCart", "getCart",
   "placeOrderFromCart", "getOrders"}

\* What a handler answers when req.user is absent: getOrders tests it and
\* answers 401; the cart handlers call extractUserId, which throws, and
\* placeOrderFromCart reads req.user._id, which throws: their catch answers 500.
Unidentified(op) ==
  IF op = "getOrders" THEN Response(401, "Unauthorized")
  ELSE Response(500, "Internal server error")

\* A request of operation op arrives without req.user.
Anonymous(r, op) ==
  /\ Idle(r)
  /\ req' = [req EXCEPT ![r] = Done(Arrive(op), Unidentified(op))]
  /\ StoreUnchanged /\ UNCHANGED <<placed, failures, last, ledger, updates>>


\* ------------------------------------------------------- placeOrderFromCart
\* An update that stops at the schema's minimum instead of adding.
IncStock_Clamped(doc, dRemaining, dSold) ==
  [doc EXCEPT !.remainingUnits = IF @ + dRemaining < 0 THEN 0 ELSE @ + dRemaining,
              !.soldUnits = IF @ + dSold < 0 THEN 0 ELSE @ + dSold]

\* $inc: { remainingUnits: dRemaining, soldUnits: dSold }, one atomic update.
IncStock(doc, dRemaining, dSold) ==
  [doc EXCEPT !.remainingUnits = @ + dRemaining, !.soldUnits = @ + dSold]

\* Product.findByIdAndUpdate(id, { $inc }): no document, no update.
FindByIdAndInc(id, dRemaining, dSold) ==
  IF products[id].exists
  THEN [products EXCEPT ![id] = IncStock(@, dRemaining, dSold)]
  ELSE products

\* A placement that forgets soldUnits.
ReserveStock_NoSold(id, quantity) == FindByIdAndInc(id, -quantity, 0)

\* placement: $inc: { remainingUnits: -quantity, soldUnits: quantity }
ReserveStock(id, quantity) == FindByIdAndInc(id, -quantity, quantity)

\* cart.cartItems after populate("cartItems"): references to deleted documents drop out.
Populated(c) == SelectSeq(carts[c].cartItems, LAMBDA k : cartItems[k].live)

\* if (product.remainingUnits < quantity)
Insufficient(product, quantity) == product.remainingUnits < quantity

\* A payment method check that lets every method through.
BadPaymentMethod_Never(pm) == FALSE

\* !["Cash", "QR"].includes(paymentMethod)
BadPaymentMethod(pm) == pm \notin {"Cash", "QR"}

\* paymentStatus: paymentMethod === "Cash" ? "Pending" : "Paid"
PaymentStatus(pm) == IF pm = "Cash" THEN "Pending" ELSE "Paid"

\* Arrival, the validation of the body, then Cart.findOne({ userId }).populate().
\* fieldsOk: address, phoneNumber and paymentMethod are all present.
PlaceOrderFromCart(r, u, sel, fieldsOk, pm, maxOrders) ==
  /\ Idle(r)
  /\ placed < maxOrders
  /\ LET q == [Arrive("placeOrderFromCart") EXCEPT
                 !.userId = u, !.sel = sel, !.paymentMethod = pm]
         c == FindCart(u)
         rejected ==
           IF ~fieldsOk THEN "Missing required fields"
           ELSE IF sel = <<>> THEN "No products selected for order"
           ELSE IF c = 0 \/ Len(Populated(c)) = 0 THEN "Cart is empty"
           ELSE ""
     IN IF rejected # ""
        THEN /\ req' = [req EXCEPT ![r] =
                         Done([q EXCEPT !.sel = <<>>, !.paymentMethod = ""],
                              Response(400, rejected))]
             /\ placed' = placed
        ELSE /\ req' = [req EXCEPT ![r] = [q EXCEPT !.pc = "po_find", !.cart = c, !.i = 1]]
             /\ placed' = placed + 1
  /\ StoreUnchanged /\ UNCHANGED <<failures, last, ledger, updates>>

\* Product.findById(productId) for line i, then the not-found and stock checks.
PoFindProduct(r) ==
  /\ req[r].pc = "po_find"
  /\ LET line == req[r].sel[req[r].i]
         product == products[line.productId]
     IN req' = [req EXCEPT ![r] =
                  IF ~product.exists
                  THEN Done(req[r], Response(400, "Product not found"))
                  ELSE IF Insufficient(product, line.quantity)
                  THEN Done(req[r], Response(400, "Insufficient stock"))
                  ELSE [req[r] EXCEPT !.product = product, !.pc = "po_item"]]
  /\ StoreUnchanged /\ UNCHANGED <<placed, failures, last, ledger, updates>>

\* An order line whose total is the unit price.
NewOrderItem_UnitTotal(line, product) ==
  [orderId |-> 0, productId |-> line.productId, quantity |-> line.quantity,
   price |-> product.price, totalPrice |-> product.price]

\* { orderId: null, productId, quantity, price: product.price,
\*   totalPrice: quantity * product.price }
NewOrderItem(line, product) ==
  [orderId |-> 0, productId |-> line.productId, quantity |-> line.quantity,
   price |-> product.price, totalPrice |-> line.quantity * product.price]

\* The OrderItem schema as the data model states it: an order line has a
\* quantity, with no bound on it, so every quantity is stored.
OrderItemValid(quantity) == TRUE

\* OrderItem.create({ orderId: null, productId, quantity, price, totalPrice }); a
\* document the schema refuses makes create() throw, and the catch answers 500.
PoCreateItem(r) ==
  /\ req[r].pc = "po_item"
  /\ IF OrderItemValid(req[r].sel[req[r].i].quantity)
     THEN /\ orderItems' = Append(orderItems,
                                  NewOrderItem(req[r].sel[req[r].i], req[r].product))
          /\ req' = [req EXCEPT ![r].item = Len(orderItems) + 1, ![r].pc = "po_inc"]
     ELSE /\ orderItems' = orderItems
          /\ req' = [req EXCEPT ![r] = Done(req[r], Response(500, "Internal server error"))]
  /\ UNCHANGED <<products, carts, cartItems, orders, placed, failures, last, ledger, updates>>

\* Product.findByIdAndUpdate(productId, { $inc }), then the bookkeeping of the
\* line; after the last line, the payment method check that follows the loop.
PoInc(r) ==
  /\ req[r].pc = "po_inc"
  /\ LET line == req[r].sel[req[r].i]
         q == [req[r] EXCEPT !.orderItems = Append(@, req[r].item),
                             !.totalAmount = @ + orderItems[req[r].item].totalPrice,
                             !.i = @ + 1, !.item = 0, !.product = NoProduct]
     IN /\ products' = ReserveStock(line.productId, line.quantity)
        /\ req' = [req EXCEPT ![r] =
                     IF q.i <= Len(q.sel) THEN [q EXCEPT !.pc = "po_find"]
                     ELSE IF BadPaymentMethod(q.paymentMethod)
                     THEN Done(q, Response(400, "Invalid payment method"))
                     ELSE [q EXCEPT !.pc = "po_order"]]
  /\ UNCHANGED <<carts, cartItems, orderItems, orders, placed, failures, last, ledger, updates>>

\* Order.create({ ..., status: "Pending", paymentStatus })
PoCreateOrder(r) ==
  /\ req[r].pc = "po_order"
  /\ orders' = Append(orders,
                      [userId |-> req[r].userId, orderItems |-> req[r].orderItems,
                       totalAmount |-> req[r].totalAmount,
                       paymentMethod |-> req[r].paymentMethod, status |-> "Pending",
                       paymentStatus |-> PaymentStatus(req[r].paymentMethod)])
  /\ req' = [req EXCEPT ![r].orderId = Len(orders) + 1, ![r].pc = "po_link"]
  /\ UNCHANGED <<products, carts, cartItems, orderItems, placed, failures, last, ledger, updates>>

\* An update that replaces the document instead of setting one path.
LinkedOrderItem_Replaced(item, orderId) ==
  [orderId |-> orderId, productId |-> item.productId, quantity |-> 0,
   price |-> 0, totalPrice |-> 0]

\* The update { orderId: order._id }: one path is set, the others stay.
LinkedOrderItem(item, orderId) == [item EXCEPT !.orderId = orderId]

\* OrderItem.updateMany({ _id: { $in: orderItems } }, { orderId: order._id })
PoLinkItems(r) ==
  /\ req[r].pc = "po_link"
  /\ orderItems' = [k \in DOMAIN orderItems |->
                      IF k \in Range(req[r].orderItems)
                      THEN LinkedOrderItem(orderItems[k], req[r].orderId)
                      ELSE orderItems[k]]
  /\ req' = [req EXCEPT ![r].pc = "po_prune"]
  /\ UNCHANGED <<products, carts, cartItems, orders, placed, failures, last, ledger, updates>>

\* A pruning that empties the whole cart.
DeleteOrdered_WholeCart(c, ordered) ==
  [k \in DOMAIN cartItems |->
     IF cartItems[k].cartId = c THEN DeletedCartItem ELSE cartItems[k]]

\* CartItem.deleteMany({ cartId, productId: { $in: orderedProductIds } })
DeleteOrdered(c, ordered) ==
  [k \in DOMAIN cartItems |->
     IF cartItems[k].cartId = c /\ cartItems[k].productId \in ordered
     THEN DeletedCartItem
     ELSE cartItems[k]]

\* The deleteMany that prunes the cart, then the 200.
PoPrune(r) ==
  /\ req[r].pc = "po_prune"
  /\ LET ordered == {req[r].sel[j].productId : j \in DOMAIN req[r].sel}
     IN cartItems' = DeleteOrdered(req[r].cart, ordered)
  /\ req' = [req EXCEPT ![r] =
               Done(req[r], [Response(200, "Order placed") EXCEPT
                               !.orderId = req[r].orderId,
                               !.totalAmount = req[r].totalAmount])]
  /\ UNCHANGED <<products, carts, orderItems, orders, placed, failures, last, ledger, updates>>


\* -------------------------------------------------------------- cancelOrder
\* Order.findById(orderId).populate(orderItems -> productId): the order as the
\* handler holds it; a line whose product document is gone has productId null.
PopulatedOrder(o) ==
  [status |-> orders[o].status,
   items |-> [j \in DOMAIN orders[o].orderItems |->
                LET it == orderItems[orders[o].orderItems[j]]
                IN [productId |-> it.productId, quantity |-> it.quantity,
                    resolved |-> products[it.productId].exists]]]

\* for (const item of order.orderItems) { if (!item.productId) continue; ... }:
\* the first line at or after j that has a product, Len + 1 when there is none.
NextResolved(items, j) ==
  LET rest == {k \in DOMAIN items : k >= j /\ items[k].resolved}
  IN IF rest = {} THEN Len(items) + 1 ELSE Min(rest)

\* A cancellation that refuses only what is already Cancelled.
NotCancellable_OnlyCancelled(status) == status = "Cancelled"

\* if (order.status !== "Pending")
NotCancellable(status) == status # "Pending"

\* A cancellation that gives the units back without taking them off soldUnits.
RestoreStock_RemainingOnly(id, quantity) == FindByIdAndInc(id, quantity, 0)

\* cancellation: $inc: { remainingUnits: item.quantity, soldUnits: -item.quantity }
RestoreStock(id, quantity) == FindByIdAndInc(id, quantity, -quantity)

\* Position of the cancel loop at line j.
CancelLoop(q, j) ==
  [q EXCEPT !.i = j, !.pc = IF j > Len(q.order.items) THEN "co_save" ELSE "co_inc"]

\* Arrival, then Order.findById(orderId).populate(...), and the two checks.
CancelOrder(r, o) ==
  /\ Idle(r)
  /\ LET q == [Arrive("cancelOrder") EXCEPT !.orderId = o]
     IN req' = [req EXCEPT ![r] =
                  IF o \notin DOMAIN orders
                  THEN Done(q, Response(404, "Order not found"))
                  ELSE LET order == PopulatedOrder(o)
                           held == [q EXCEPT !.order = order]
                       IN IF NotCancellable(order.status)
                          THEN Done(held, Response(400, "Order can only be cancelled if it's pending"))
                          ELSE CancelLoop(held, NextResolved(order.items, 1))]
  /\ StoreUnchanged /\ UNCHANGED <<placed, failures, last, ledger, updates>>

\* Product.findByIdAndUpdate(item.productId._id, { $inc }) for line i.
CoInc(r) ==
  /\ req[r].pc = "co_inc"
  /\ LET line == req[r].order.items[req[r].i]
     IN products' = RestoreStock(line.productId, line.quantity)
  /\ req' = [req EXCEPT ![r] =
               CancelLoop(req[r], NextResolved(req[r].order.items, req[r].i + 1))]
  /\ UNCHANGED <<carts, cartItems, orderItems, orders, placed, failures, last, ledger, updates>>

\* order.status = "Cancelled"; await order.save(); then the 200.
CoSave(r) ==
  /\ req[r].pc = "co_save"
  /\ orders' = [orders EXCEPT ![req[r].orderId].status = "Cancelled"]
  /\ req' = [req EXCEPT ![r] = Done(req[r], Response(200, "Order cancelled successfully"))]
  /\ UNCHANGED <<products, carts, cartItems, orderItems, placed, failures, last, ledger, updates>>

\* -------------------------------------------------------- changeOrderStatus
\* A list of allowed statuses with one status too many.
ValidStatuses_WithReturned ==
  {"Pending", "Processing", "Shipped", "Delivered", "Cancelled", "Returned"}

\* const validStatuses = ["Pending", "Processing", "Shipped", "Delivered", "Cancelled"]
ValidStatuses == {"Pending", "Processing", "Shipped", "Delivered", "Cancelled"}

\* A terminal check against a misspelt status.
Frozen_Misspelt(status) == status = "Canceled"

\* if (order.status === "Cancelled")
Frozen(status) == status = "Cancelled"

\* A status write that never leaves Delivered.
SaveStatus_KeepDelivered(o, held, status) ==
  IF status # held /\ held # "Delivered" THEN [orders EXCEPT ![o].status = status] ELSE orders

\* order.status = status; await order.save(): save writes the paths that were
\* modified, so assigning the value the document already holds writes nothing.
SaveStatus(o, held, status) ==
  IF status # held THEN [orders EXCEPT ![o].status = status] ELSE orders

\* Arrival, the status check, then Order.findById(orderId) and the two checks.
ChangeOrderStatus(r, o, status) ==
  /\ Idle(r)
  /\ LET q == [Arrive("changeOrderStatus") EXCEPT !.orderId = o, !.status = status]
     IN req' = [req EXCEPT ![r] =
                  IF status \notin ValidStatuses
                  THEN Done(q, Response(400, "Invalid status update"))
                  ELSE IF o \notin DOMAIN orders
                  THEN Done(q, Response(404, "Order not found"))
                  ELSE LET held == [q EXCEPT !.order = PopulatedOrder(o)]
                       IN IF Frozen(held.order.status)
                          THEN Done(held, Response(400, "Cannot update a cancelled order"))
                          ELSE [held EXCEPT !.pc = "cs_save"]]
  /\ StoreUnchanged /\ UNCHANGED <<placed, failures, last, ledger, updates>>

CsSave(r) ==
  /\ req[r].pc = "cs_save"
  /\ orders' = SaveStatus(req[r].orderId, req[r].order.status, req[r].status)
  /\ req' = [req EXCEPT ![r] = Done(req[r], Response(200, "Order status updated"))]
  /\ UNCHANGED <<products, carts, cartItems, orderItems, placed, failures, last, ledger, updates>>

\* ------------------------------------------------------ failure, completion
\* An awaited store call rejects: the handler's catch answers 500 and nothing
\* that was written before is undone.
StoreFail(r) ==
  /\ req[r].pc \notin {"idle", "done"}
  /\ failures < MaxFailures
  /\ failures' = failures + 1
  /\ req' = [req EXCEPT ![r] = Done(req[r], Response(500, "Internal server error"))]
  /\ StoreUnchanged /\ UNCHANGED <<placed, last, ledger, updates>>

\* The units of product p that the selection sel asks for.
RECURSIVE SelectedUnits(_, _)
SelectedUnits(sel, p) ==
  IF sel = <<>> THEN 0
  ELSE (IF Head(sel).productId = p THEN Head(sel).quantity ELSE 0)
       + SelectedUnits(Tail(sel), p)

\* The units of product p on the lines of a populated order that have a product.
RECURSIVE HeldUnits(_, _)
HeldUnits(items, p) ==
  IF items = <<>> THEN 0
  ELSE (IF Head(items).resolved /\ Head(items).productId = p THEN Head(items).quantity ELSE 0)
       + HeldUnits(Tail(items), p)

\* The units of product p that the answered request q took (a placement
\* answered 200) or gave back (a cancellation answered 200), as the caller counts them.
Taken(q, p) ==
  IF q.op = "placeOrderFromCart" /\ q.res.code = 200 THEN SelectedUnits(q.sel, p)
  ELSE IF q.op = "cancelOrder" /\ q.res.code = 200 THEN 0 - HeldUnits(q.order.items, p)
  ELSE 0

\* The response is delivered and the slot is free again.
Finish(r) ==
  /\ req[r].pc = "done"
  /\ last' = IF req[r].op = "placeOrderFromCart" /\ req[r].res.code = 200
              THEN [orderId |-> req[r].res.orderId, before |-> req[r].pre.products]
              ELSE NoPlacement
  /\ ledger' = [p \in Products |-> ledger[p] + Taken(req[r], p)]
  /\ req' = [req EXCEPT ![r] = IdleReq]
  /\ StoreUnchanged /\ UNCHANGED <<placed, failures, updates>>

\* ------------------------------------------------------------ specifications
Running == {q \in Reqs : req[q].pc \notin {"idle", "done"}}

\* The schedules a specification explores: a request of an operation in
\* in.alone arrives only when no handler is running, and none arrives while it runs.
Admit(op, in) ==
  /\ op \in in.alone => Running = {}
  /\ \A q \in Running : req[q].op \notin in.alone

\* One step of an addToCart request in slot r; a request that arrives draws
\* its body from the inputs in.
AddStep(r, in) ==
  \/ \E u \in Users, p \in in.products : Admit("addToCart", in) /\ AddToCart(r, u, p)
  \/ AtcFindCart(r)
  \/ AtcSaveNewCart(r)
  \/ AtcFindItem(r)
  \/ AtcSaveItem(r)
  \/ AtcPushCart(r)
  \/ AtcUpdate(r)

\* One step of a placement or order lifecycle request in slot r.
OrderStep(r, in) ==
  \/ \E u \in Users, sel \in in.sels, fieldsOk \in in.fields, pm \in in.pms :
       Admit("placeOrderFromCart", in) /\ PlaceOrderFromCart(r, u, sel, fieldsOk, pm, in.orders)
  \/ PoFindProduct(r)
  \/ PoCreateItem(r)
  \/ PoInc(r)
  \/ PoCreateOrder(r)
  \/ PoLinkItems(r)
  \/ PoPrune(r)
  \/ \E o \in OrderIds : Admit("cancelOrder", in) /\ CancelOrder(r, o)
  \/ CoInc(r)
  \/ CoSave(r)
  \/ \E o \in OrderIds, status \in in.statuses :
       Admit("changeOrderStatus", in) /\ ChangeOrderStatus(r, o, status)
  \/ CsSave(r)

\* One step of an updateCartQuantity, removeFromCart or getCart request in slot r.
CartStep(r, in) ==
  \/ \E u \in Users, p \in in.products, quantity \in in.quantities :
       Admit("updateCartQuantity", in) /\ UpdateCartQuantity(r, u, p, quantity)
  \/ UcqFindItem(r)
  \/ UcqSave(r)
  \/ \E u \in Users, p \in in.products : Admit("removeFromCart", in) /\ RemoveFromCart(r, u, p)
  \/ RfcDelete(r)
  \/ RfcPull(r)
  \/ \E u \in Users : Admit("getCart", in) /\ GetCart(r, u)

\* One step of the request in slot r, of the operations that move stock or read it.
Step(r, in) ==
  \/ AddStep(r, in)
  \/ OrderStep(r, in)
  \/ Finish(r)

Quiescent == \A r \in Reqs : Idle(r)

\* Requests of independent clients, interleaved at every await, over a store
\* that answers every call.  Their bodies all name one product, in one-line
\* selections; a cart request runs alone.
ConcurrentInputs ==
  [products |-> {"p1"}, orders |-> MaxOrders, alone |-> {"addToCart"},
   sels |-> {s \in Selections : Len(s) = 1 /\ s[1].productId = "p1"},
   fields |-> {TRUE}, pms |-> {"Cash"}, statuses |-> {"Delivered", "Cancelled"}]

Next ==
  \/ \E p \in ConcurrentInputs.products, totalUnits \in Units :
       CreateProduct(p, totalUnits, UnitPrice, 0)
  \/ \E r \in Reqs : Step(r, ConcurrentInputs)

Spec == Init /\ [][Next]_vars

\* The same handlers with one request at a time, every body a client can
\* send, and store calls that may fail.
SeqInputs ==
  [products |-> Products, orders |-> MaxSeqOrders, alone |-> {}, sels |-> Selections, fields |-> BOOLEAN, pms |-> PaymentMethods,
   statuses |-> RequestedStatuses]

NextSeq ==
  \/ \E p \in Products, totalUnits \in Units :
       Quiescent /\ CreateProduct(p, totalUnits, UnitPrice, 0)
  \/ Step("r1", SeqInputs)
  \/ StoreFail("r1")

SpecSeq == Init /\ [][NextSeq]_vars

\* The cart handlers alone, as requests of independent clients interleaved at
\* every await, all naming one product.
CartInputs ==
  [products |-> {"p1"}, alone |-> {}, quantities |-> UpdateQtys]

NextCart ==
  \/ \E p \in CartInputs.products, totalUnits \in Units :
       CreateProduct(p, totalUnits, UnitPrice, 0)
  \/ \E r \in Reqs : AddStep(r, CartInputs) \/ CartStep(r, CartInputs) \/ Finish(r)

SpecCart == Init /\ [][NextCart]_vars

\* Every handler of a shopper's session, one request at a time, with store
\* calls that may fail; orders have one line, paid in cash.
ShopInputs ==
  [products |-> Products, orders |-> MaxSeqOrders, alone |-> {},
   sels |-> {s \in Selections : Len(s) = 1}, fields |-> {TRUE}, pms |-> {"Cash"},
   statuses |-> {"Cancelled"}, quantities |-> UpdateQtys]

NextShop ==
  \/ \E p \in Products, totalUnits \in Units :
       Quiescent /\ CreateProduct(p, totalUnits, UnitPrice, 0)
  \/ Step("r1", ShopInputs)
  \/ CartStep("r1", ShopInputs)
  \/ StoreFail("r1")

SpecShop == Init /\ [][NextShop]_vars

\* The shopper's session again, with getOrders and with requests that carry
\* no user.
NextAuth ==
  \/ NextShop
  \/ \E u \in Users : GetOrders("r1", u)
  \/ \E op \in IdentityOps : Anonymous("r1", op)

SpecAuth == Init /\ [][NextAuth]_vars

\* The catalogue and the orders: an admin creates a product at one of several
\* prices and changes its price, between a shopper's requests for that product,
\* one request at a time, with store calls that may fail.
CatalogInputs ==
  [products |-> {"p1"}, orders |-> MaxCatalogOrders, alone |-> {},
   sels |-> {s \in Selections : \A j \in DOMAIN s : s[j].productId = "p1"},
   fields |-> {TRUE}, pms |-> {"Cash", "QR"}, statuses |-> {"Delivered", "Cancelled"},
   bodies |-> {b \in Bodies : ~b.hasTotalUnits}, updates |-> MaxUpdates]

\* One step of an updateProduct request in slot r.
AdminStep(r, in) ==
  \/ \E p \in in.products, body \in in.bodies :
       Admit("updateProduct", in) /\ UpdateProduct(r, p, body, in.updates)
  \/ UpSave(r)

NextCatalog ==
  \/ \E p \in CatalogInputs.products, totalUnits \in Units, price \in Prices, discount \in Discounts :
       Quiescent /\ CreateProduct(p, totalUnits, price, discount)
  \/ AdminStep("r1", CatalogInputs)
  \/ Step("r1", CatalogInputs)
  \/ StoreFail("r1")

SpecCatalog == Init /\ [][NextCatalog]_vars

\* Stock under catalogue updates: an admin's updateProduct requests (slot r1),
\* with and without totalUnits, interleaved at every await with one shopper's
\* requests (slot r2), all for one product.
StockInputs ==
  [products |-> {"p1"}, orders |-> MaxSeqOrders, alone |-> {},
   sels |-> {s \in Selections : Len(s) = 1 /\ s[1].productId = "p1"},
   fields |-> {TRUE}, pms |-> {"Cash"}, statuses |-> {"Cancelled"},
   bodies |-> {b \in Bodies : b.discount = 0}, updates |-> MaxUpdates]

NextStock ==
  \/ \E p \in StockInputs.products, totalUnits \in Units, price \in Prices :
       CreateProduct(p, totalUnits, price, 0)
  \/ AdminStep("r1", StockInputs)
  \/ Step("r2", StockInputs)
  \/ Finish("r1")

SpecStock == Init /\ [][NextStock]_vars

\* Placements whose selected quantities may be 0 or negative, one request at a
\* time, for one product.
SignedInputs ==
  [products |-> {"p1"}, orders |-> MaxSeqOrders, alone |-> {},
   sels |-> SignedSelections, fields |-> {TRUE}, pms |-> {"Cash"},
   statuses |-> {"Cancelled"}]

NextSigned ==
  \/ \E p \in SignedInputs.products, totalUnits \in Units :
       Quiescent /\ CreateProduct(p, totalUnits, UnitPrice, 0)
  \/ Step("r1", SignedInputs)

SpecSigned == Init /\ [][NextSigned]_vars


\* ------------------------------------------------------------------ claims
SameStock(a, b) == a.remainingUnits = b.remainingUnits /\ a.soldUnits = b.soldUnits

Finished(r, op) == req[r].pc = "done" /\ req[r].op = op

\* C1: every product that createProduct made keeps
\* remainingUnits + soldUnits = totalUnits, in every state that interleaved
\* addToCart, placeOrderFromCart, cancelOrder and changeOrderStatus requests reach.
C1_StockConserved ==
  \A p \in Products :
    products[p].exists =>
      products[p].remainingUnits + products[p].soldUnits = products[p].totalUnits

\* C1 witness: stock has been sold, an order has been cancelled and a
\* placement is running.
C1_Witness ==
  /\ \E p \in Products : products[p].exists /\ products[p].soldUnits > 0
  /\ \E o \in DOMAIN orders : orders[o].status = "Cancelled"
  /\ \E r \in Running : req[r].op = "placeOrderFromCart" /\ req[r].pc = "po_order"

\* C2: remainingUnits of every product is at least 0 in every state that
\* concurrent placements of the same product reach.
C2_RemainingNonNegative ==
  \A p \in Products : products[p].exists => products[p].remainingUnits >= 0

\* C3: when a placement is rejected at a later line (product not found or
\* insufficient stock), every product of an earlier line has the
\* remainingUnits and soldUnits it had before the request.
C3_FailedPlacementRestoresStock ==
  \A r \in Reqs :
    ( /\ Finished(r, "placeOrderFromCart")
      /\ req[r].pre.taken
      /\ req[r].res.msg \in {"Product not found", "Insufficient stock"}
      /\ req[r].i > 1 )
    => \A j \in 1..(req[r].i - 1) :
         SameStock(products[req[r].sel[j].productId],
                   req[r].pre.products[req[r].sel[j].productId])

\* C4: a successful placement followed directly by the successful
\* cancellation of the order it created leaves remainingUnits and soldUnits
\* of every product as the placement found them.
C4_PlaceThenCancelRoundTrip ==
  \A r \in Reqs :
    ( /\ Finished(r, "cancelOrder")
      /\ req[r].res.code = 200
      /\ last.orderId # 0
      /\ last.orderId = req[r].orderId )
    => \A p \in Products : SameStock(products[p], last.before[p])

\* C4 witness: such a cancellation has answered, for an order of two units.
C4_Witness ==
  \E r \in Reqs :
    /\ Finished(r, "cancelOrder")
    /\ req[r].res.code = 200
    /\ last.orderId = req[r].orderId
    /\ \E j \in DOMAIN req[r].order.items : req[r].order.items[j].quantity = 2

\* The lines of the order held by q whose stock the cancel loop has restored.
RestoredLines(q) == {k \in DOMAIN q.order.items : k < q.i /\ q.order.items[k].resolved}

\* C5: in no state, intermediate or final, has a cancellation restored stock
\* of an order whose stored status is not Cancelled.
C5_CancelAtomic ==
  \A r \in Reqs :
    (req[r].op = "cancelOrder" /\ req[r].pc # "idle" /\ RestoredLines(req[r]) # {})
    => orders[req[r].orderId].status = "Cancelled"

\* C6: a cancelOrder request that finds the order not Pending answers 400, one
\* that finds no order answers 404, and both leave the store as they found it.
C6_CancelRejected ==
  \A r \in Reqs :
    (Finished(r, "cancelOrder") /\ req[r].pre.taken)
    => LET o == req[r].orderId
           before == req[r].pre
       IN /\ o \notin DOMAIN before.orders
               => req[r].res.code = 404 /\ Store = [x \in DOMAIN Store |-> before[x]]
          /\ (o \in DOMAIN before.orders /\ before.orders[o].status # "Pending")
               => req[r].res.code = 400 /\ Store = [x \in DOMAIN Store |-> before[x]]

\* C6 witness: cancelling an order that was already Cancelled has been rejected.
C6_Witness ==
  \E r \in Reqs :
    /\ Finished(r, "cancelOrder")
    /\ req[r].orderId \in DOMAIN req[r].pre.orders
    /\ req[r].pre.orders[req[r].orderId].status = "Cancelled"
    /\ req[r].res.code = 400

\* C7: a changeOrderStatus request that finds the order Cancelled answers 400
\* whatever status it asks for, and leaves the store as it found it.
C7_ChangeOnCancelledRejected ==
  \A r \in Reqs :
    ( /\ Finished(r, "changeOrderStatus")
      /\ req[r].pre.taken
      /\ req[r].orderId \in DOMAIN req[r].pre.orders
      /\ req[r].pre.orders[req[r].orderId].status = "Cancelled" )
    => req[r].res.code = 400 /\ Store = [x \in DOMAIN Store |-> req[r].pre[x]]

\* C7 witness: a valid status was asked for a Cancelled order and refused.
C7_Witness ==
  \E r \in Reqs :
    /\ Finished(r, "changeOrderStatus")
    /\ req[r].status = "Delivered"
    /\ req[r].orderId \in DOMAIN req[r].pre.orders
    /\ req[r].pre.orders[req[r].orderId].status = "Cancelled"
    /\ req[r].res.code = 400

\* C8: an order whose stored status is Cancelled is Cancelled in every later state.
C8_CancelledIsTerminal ==
  [][\A o \in DOMAIN orders :
       orders[o].status = "Cancelled" => orders'[o].status = "Cancelled"]_vars

\* Units of product p in the lines of order o.
RECURSIVE UnitsOf(_, _, _)
UnitsOf(items, ids, p) ==
  IF ids = <<>> THEN 0
  ELSE (IF items[Head(ids)].productId = p THEN items[Head(ids)].quantity ELSE 0)
       + UnitsOf(items, Tail(ids), p)

\* C9: a request that moved an order into Cancelled, through cancelOrder or
\* through changeOrderStatus, has given every product back the units of the
\* order's lines: remainingUnits up, soldUnits down by that many.
C9_CancelledReversesInventory ==
  \A r \in Reqs, o \in DOMAIN orders :
    ( /\ req[r].pc = "done"
      /\ req[r].pre.taken
      /\ o \in DOMAIN req[r].pre.orders
      /\ req[r].pre.orders[o].status # "Cancelled"
      /\ orders[o].status = "Cancelled" )
    => \A p \in Products :
         LET n == UnitsOf(orderItems, orders[o].orderItems, p)
             before == req[r].pre.products[p]
         IN /\ products[p].remainingUnits = before.remainingUnits + n
            /\ products[p].soldUnits = before.soldUnits - n

\* The quantity of user u's cart line for product p in store snapshot s, 0 when
\* there is none.
CartQuantity(s, u, p) ==
  LET hits == {k \in DOMAIN s.cartItems :
                 /\ s.cartItems[k].live
                 /\ s.cartItems[k].productId = p
                 /\ s.cartItems[k].cartId \in DOMAIN s.carts
                 /\ s.carts[s.cartItems[k].cartId].userId = u}
  IN IF hits = {} THEN 0 ELSE s.cartItems[Min(hits)].quantity

\* C10: an addToCart request for an existing product that the store served
\* is answered with the stock-exceeded error exactly when the cart quantity
\* plus 1 exceeds remainingUnits; the error carries remainingUnits and the cart
\* quantity, and no cart line and no product has changed.
C10_AddRejectedIffExceedsStock ==
  \A r \in Reqs :
    ( /\ Finished(r, "addToCart")
      /\ req[r].pre.taken
      /\ req[r].res.code \notin {404, 500} )
    => LET before == req[r].pre
           product == before.products[req[r].productId]
           quantity == CartQuantity(before, req[r].userId, req[r].productId)
       IN /\ req[r].res.msg = "stock exceeded" <=> quantity + 1 > product.remainingUnits
          /\ req[r].res.msg = "stock exceeded" =>
               /\ req[r].res.code = 400
               /\ req[r].res.availableStock = product.remainingUnits
               /\ req[r].res.currentCartQuantity = quantity
               /\ cartItems = before.cartItems
               /\ products = before.products

\* C10 witness: a second unit was refused for a product with one unit left and
\* one unit in the cart.
C10_Witness ==
  \E r \in Reqs :
    /\ Finished(r, "addToCart")
    /\ req[r].res.msg = "stock exceeded"
    /\ req[r].res.availableStock = 1
    /\ req[r].res.currentCartQuantity = 1

\* The four cart operations.
CartOps == {"addToCart", "updateCartQuantity", "removeFromCart", "getCart"}

\* C11: no step of an addToCart, updateCartQuantity, removeFromCart or getCart
\* request changes any Product document (remainingUnits, soldUnits and
\* totalUnits included), so a finished cart request finds every product as it
\* was when the request arrived; and the availableStock a successful addToCart
\* returns is the remainingUnits the product still has.
C11_CartNeverReservesStock ==
  /\ [][\A r \in Reqs :
          (req'[r].op \in CartOps /\ req'[r] # req[r]) => products' = products]_vars
  /\ [](\A r \in Reqs :
          /\ (req[r].pc = "done" /\ req[r].op \in CartOps /\ req[r].pre.taken)
               => products = req[r].pre.products
          /\ (Finished(r, "addToCart") /\ req[r].res.code = 201)
               => req[r].res.availableStock = products[req[r].productId].remainingUnits)

\* C11 witness: with stock sold before, a second unit of a product went into
\* the cart and the response reports both remaining units; an update and a
\* removal have been served too.
C11_Witness ==
  \E r \in Reqs :
    /\ Finished(r, "addToCart") /\ req[r].res.code = 201
    /\ req[r].res.currentCartQuantity = 2 /\ req[r].res.availableStock = 2
    /\ \E p \in Products : products[p].exists /\ products[p].soldUnits > 0

\* The live cart lines of user u for product p in store snapshot s.
CartLines(s, u, p) ==
  {k \in DOMAIN s.cartItems :
     /\ s.cartItems[k].live
     /\ s.cartItems[k].productId = p
     /\ s.cartItems[k].cartId \in DOMAIN s.carts
     /\ s.carts[s.cartItems[k].cartId].userId = u}

\* C12: a successful addToCart(user, product), served with no other request in
\* flight, leaves the user exactly one line for the product: a new one with
\* quantity 1 when there was none, otherwise the existing one with its quantity
\* raised by exactly 1; the other lines are as they were; the returned
\* currentCartQuantity is the stored quantity and is at most the product's
\* remainingUnits.
C12_AddCreatesOrIncrements ==
  \A r \in Reqs :
    (Finished(r, "addToCart") /\ req[r].res.code = 201 /\ req[r].pre.taken)
    => LET before == req[r].pre
           u == req[r].userId
           p == req[r].productId
           old == CartLines(before, u, p)
           now == CartLines(Store, u, p)
       IN /\ Cardinality(now) = 1
          /\ old = {} => /\ now \cap DOMAIN before.cartItems = {}
                         /\ CartQuantity(Store, u, p) = 1
          /\ old # {} => /\ now = old
                         /\ CartQuantity(Store, u, p) = CartQuantity(before, u, p) + 1
          /\ \A k \in DOMAIN before.cartItems : k \notin old => cartItems[k] = before.cartItems[k]
          /\ req[r].res.currentCartQuantity = CartQuantity(Store, u, p)
          /\ req[r].res.currentCartQuantity <= before.products[p].remainingUnits

\* C12 witness: a repeat add raised a line from 1 to 2 and answered 2.
C12_Witness ==
  \E r \in Reqs :
    /\ Finished(r, "addToCart") /\ req[r].res.code = 201 /\ req[r].pre.taken
    /\ CartQuantity(req[r].pre, req[r].userId, req[r].productId) = 1
    /\ CartQuantity(Store, req[r].userId, req[r].productId) = 2
    /\ req[r].res.currentCartQuantity = 2

C14_CartLineQuantityPositive ==
  /\ \A k \in DOMAIN cartItems : cartItems[k].live => cartItems[k].quantity >= 1
  /\ \A r \in Reqs :
       ( /\ Finished(r, "updateCartQuantity") /\ req[r].quantity = 0
         /\ req[r].pre.taken /\ failures = 0 )
       => CartLines(Store, req[r].userId, req[r].productId) = {}

\* C15: a successful placeOrderFromCart, served with no other request in
\* flight, lowers remainingUnits and raises soldUnits of each selected product
\* by exactly the selected quantity and leaves every other field and every other
\* product as it was; of the cart lines stored before, exactly the user's lines
\* for the ordered products are deleted, and the others are unchanged.
C15_PlacementEffect ==
  \A r \in Reqs :
    (Finished(r, "placeOrderFromCart") /\ req[r].res.code = 200 /\ req[r].pre.taken)
    => LET before == req[r].pre
           ordered == {req[r].sel[j].productId : j \in DOMAIN req[r].sel}
       IN /\ \A p \in Products :
               products[p] =
                 [before.products[p] EXCEPT
                    !.remainingUnits = @ - SelectedUnits(req[r].sel, p),
                    !.soldUnits = @ + SelectedUnits(req[r].sel, p)]
          /\ DOMAIN cartItems = DOMAIN before.cartItems
          /\ \A k \in DOMAIN before.cartItems :
               IF \E p \in ordered : k \in CartLines(before, req[r].userId, p)
               THEN ~cartItems[k].live
               ELSE cartItems[k] = before.cartItems[k]

\* C15 witness: an order for one of two products in the cart was placed; its
\* line is gone and the line of the other product is still there.
C15_Witness ==
  \E r \in Reqs :
    /\ Finished(r, "placeOrderFromCart") /\ req[r].res.code = 200 /\ req[r].pre.taken
    /\ Len(req[r].sel) = 1
    /\ CartLines(req[r].pre, req[r].userId, req[r].sel[1].productId) # {}
    /\ CartLines(Store, req[r].userId, req[r].sel[1].productId) = {}
    /\ \E k \in DOMAIN cartItems :
         cartItems[k].live /\ cartItems[k].productId # req[r].sel[1].productId
    /\ products[req[r].sel[1].productId].soldUnits = req[r].sel[1].quantity

\* The answers of placeOrderFromCart to invalid input.
InvalidInputAnswers ==
  {"Missing required fields", "No products selected for order", "Cart is empty",
   "Invalid payment method"}

\* C16: a placeOrderFromCart request rejected for invalid input (a missing
\* address, phone or payment method; an empty selection; an absent or empty
\* cart; a payment method other than Cash and QR), served with no other request
\* in flight, leaves products, orders, order lines and cart lines as it found them.
C16_RejectedPlacementChangesNothing ==
  \A r \in Reqs :
    ( /\ Finished(r, "placeOrderFromCart")
      /\ req[r].res.msg \in InvalidInputAnswers
      /\ req[r].pre.taken )
    => /\ products = req[r].pre.products
       /\ orders = req[r].pre.orders
       /\ orderItems = req[r].pre.orderItems
       /\ cartItems = req[r].pre.cartItems

\* C17: every order that a step creates has status Pending, a payment method
\* of Cash or QR, and paymentStatus Paid for QR and Pending for Cash; and no
\* stored order ever has another payment method or another paymentStatus for
\* its method.
C17_NewOrderPendingCashOrQR ==
  /\ [][\A o \in DOMAIN orders' \ DOMAIN orders :
          /\ orders'[o].status = "Pending"
          /\ orders'[o].paymentMethod \in {"Cash", "QR"}]_vars
  /\ [](\A o \in DOMAIN orders :
          \/ orders[o].paymentMethod = "QR" /\ orders[o].paymentStatus = "Paid"
          \/ orders[o].paymentMethod = "Cash" /\ orders[o].paymentStatus = "Pending")

\* C17 witness: an order paid by QR is stored as Paid, its placement answered.
C17_Witness ==
  \E r \in Reqs :
    /\ Finished(r, "placeOrderFromCart") /\ req[r].res.code = 200
    /\ req[r].paymentMethod = "QR"
    /\ orders[req[r].res.orderId].paymentStatus = "Paid"
    /\ orders[req[r].res.orderId].status = "Pending"

\* The sum of totalPrice over the order lines with the ids in the sequence ids.
RECURSIVE SumTotalPrice(_)
SumTotalPrice(ids) ==
  IF ids = <<>> THEN 0 ELSE orderItems[Head(ids)].totalPrice + SumTotalPrice(Tail(ids))

\* C18: the totalAmount of every order is the sum of the totalPrice of its order
\* lines; the totalPrice of every order line is its quantity times its price,
\* and the lines of a placement served with no other request in flight carry the
\* selected quantity and the price the product had; the totalAmount a successful
\* placement returns is the one stored in its order.
C18_TotalIsSumOfLines ==
  /\ \A o \in DOMAIN orders : orders[o].totalAmount = SumTotalPrice(orders[o].orderItems)
  /\ \A k \in DOMAIN orderItems :
       orderItems[k].totalPrice = orderItems[k].quantity * orderItems[k].price
  /\ \A r \in Reqs :
       (Finished(r, "placeOrderFromCart") /\ req[r].pre.taken)
       => \A j \in DOMAIN req[r].orderItems :
            LET item == orderItems[req[r].orderItems[j]]
            IN /\ item.productId = req[r].sel[j].productId
               /\ item.quantity = req[r].sel[j].quantity
               /\ item.price = req[r].pre.products[item.productId].price
  /\ \A r \in Reqs :
       (Finished(r, "placeOrderFromCart") /\ req[r].res.code = 200)
       => /\ req[r].res.orderId \in DOMAIN orders
          /\ req[r].res.totalAmount = orders[req[r].res.orderId].totalAmount

\* C18 witness: a placement of two lines at the discounted price 1, after the
\* product was created at price 2, answers the total 2.
C18_Witness ==
  \E r \in Reqs :
    /\ Finished(r, "placeOrderFromCart") /\ req[r].res.code = 200
    /\ Len(orders[req[r].res.orderId].orderItems) = 2
    /\ req[r].res.totalAmount = 2
    /\ \E o \in DOMAIN orders : orders[o].totalAmount = 4

\* C19: no step changes the product reference, the quantity, the price or the
\* totalPrice of a stored order line, and no step removes an order line.
C19_OrderLineImmutable ==
  [][\A k \in DOMAIN orderItems :
       /\ k \in DOMAIN orderItems'
       /\ orderItems'[k].productId = orderItems[k].productId
       /\ orderItems'[k].quantity = orderItems[k].quantity
       /\ orderItems'[k].price = orderItems[k].price
       /\ orderItems'[k].totalPrice = orderItems[k].totalPrice]_vars

\* C19 witness: the line of a cancelled order still carries price 2 after
\* updateProduct lowered the product's price to 1 and a later order was placed
\* at that price.
C19_Witness ==
  \E k1, k2 \in DOMAIN orderItems :
    /\ orderItems[k1].price = 2 /\ orderItems[k2].price = 1
    /\ orderItems[k1].orderId \in DOMAIN orders
    /\ orderItems[k2].orderId \in DOMAIN orders
    /\ orders[orderItems[k1].orderId].status = "Cancelled"
    /\ orderItems[k2].orderId > orderItems[k1].orderId
    /\ products[orderItems[k1].productId].price = 1

\* C20: when a placeOrderFromCart request has finished, with success or with
\* an error answer, every stored order line is listed by exactly one stored
\* order and names that order as its own: a failed placement leaves no order
\* line without an order.  (Runs in which a store call failed are left aside.)
C20_OrderCreatedWithItsLines ==
  \A r \in Reqs :
    (Finished(r, "placeOrderFromCart") /\ failures = 0)
    => \A k \in DOMAIN orderItems :
         LET owners == {o \in DOMAIN orders : k \in Range(orders[o].orderItems)}
         IN Cardinality(owners) = 1 /\ orderItems[k].orderId \in owners

\* C21: an addToCart, updateCartQuantity, removeFromCart, getCart,
\* placeOrderFromCart or getOrders request that carries no user is answered
\* 401 Unauthorized, not with the 500 of an internal failure, and leaves the
\* store as it found it.
C21_NoUserIsUnauthorized ==
  \A r \in Reqs :
    (req[r].pc = "done" /\ req[r].op \in IdentityOps /\ req[r].userId = "")
    => /\ req[r].res.code = 401
       /\ req[r].pre.taken => Store = [k \in DOMAIN Store |-> req[r].pre[k]]

\* C22: when interleaved requests have all completed, every product has
\* remainingUnits = its initial units - the units of the placements answered
\* 200 + the units of the cancellations answered 200, and soldUnits the mirror
\* value: no $inc of a concurrent request is lost.
C22_NoLostStockUpdate ==
  Quiescent =>
    \A p \in Products :
      products[p].exists =>
        /\ products[p].remainingUnits = products[p].totalUnits - ledger[p]
        /\ products[p].soldUnits = ledger[p]

\* C22 witness: all requests have completed after a placement and two
\* cancellations of its order that ran concurrently and were both answered 200.
C22_Witness ==
  /\ Quiescent
  /\ \E p \in Products :
       /\ products[p].exists
       /\ ledger[p] < 0
       /\ products[p].remainingUnits = products[p].totalUnits - ledger[p]

\* C23: a changeOrderStatus request whose status is none of Pending,
\* Processing, Shipped, Delivered, Cancelled is answered 400 "Invalid status
\* update" and leaves every order as it was, for an order id that exists and
\* for one that does not.
C23_InvalidStatusRejected ==
  \A r \in Reqs :
    ( /\ Finished(r, "changeOrderStatus")
      /\ req[r].status \notin {"Pending", "Processing", "Shipped", "Delivered", "Cancelled"} )
    => /\ req[r].res.code = 400
       /\ req[r].res.msg = "Invalid status update"
       /\ req[r].pre.taken => orders = req[r].pre.orders

\* C23 witness: the status Returned was refused for a stored order that is
\* still Pending.
C23_Witness ==
  \E r \in Reqs :
    /\ Finished(r, "changeOrderStatus")
    /\ req[r].status = "Returned" /\ req[r].res.code = 400
    /\ req[r].orderId \in DOMAIN orders
    /\ orders[req[r].orderId].status = "Pending"

\* C25: a changeOrderStatus request that the store served, for a stored order
\* that is not Cancelled and with one of the five valid statuses, is answered
\* 200 whatever the current status is, and leaves the order with the requested
\* status and every other field, every other order, every order line and every
\* product as they were.
C25_StatusOverwritten ==
  \A r \in Reqs :
    ( /\ Finished(r, "changeOrderStatus")
      /\ req[r].pre.taken
      /\ req[r].res.code # 500
      /\ req[r].status \in {"Pending", "Processing", "Shipped", "Delivered", "Cancelled"}
      /\ req[r].orderId \in DOMAIN req[r].pre.orders
      /\ req[r].pre.orders[req[r].orderId].status # "Cancelled" )
    => /\ req[r].res.code = 200
       /\ orders = [req[r].pre.orders EXCEPT ![req[r].orderId].status = req[r].status]
       /\ orderItems = req[r].pre.orderItems
       /\ products = req[r].pre.products

\* C25 witness: a Delivered order was set back to Pending.
C25_Witness ==
  \E r \in Reqs :
    /\ Finished(r, "changeOrderStatus") /\ req[r].res.code = 200
    /\ req[r].pre.taken
    /\ req[r].orderId \in DOMAIN req[r].pre.orders
    /\ req[r].pre.orders[req[r].orderId].status = "Delivered"
    /\ orders[req[r].orderId].status = "Pending"

\* C24: a removeFromCart(user, product) request, served with no other request
\* in flight: answered 200, it found a line of the user for the product; that
\* line is deleted, its reference is gone from the user's cart, and every other
\* line and reference is as it was; with no cart or no such line it is answered
\* 404 and nothing has changed.  An answer other than 500 is 200 exactly when
\* the line existed.
C24_RemoveFromCart ==
  \A r \in Reqs :
    (Finished(r, "removeFromCart") /\ req[r].pre.taken /\ req[r].res.code # 500)
    => LET before == req[r].pre
           old == CartLines(before, req[r].userId, req[r].productId)
       IN /\ req[r].res.code = 200 <=> old # {}
          /\ req[r].res.code = 200 =>
               \E k \in old :
                 /\ cartItems = [before.cartItems EXCEPT ![k] = DeletedCartItem]
                 /\ LET c == before.cartItems[k].cartId
                    IN carts = [before.carts EXCEPT
                                  ![c].cartItems = SelectSeq(@, LAMBDA ref : ref # k)]
          /\ req[r].res.code # 200 =>
               /\ req[r].res.code = 404
               /\ cartItems = before.cartItems /\ carts = before.carts
          /\ products = before.products /\ orders = before.orders
          /\ orderItems = before.orderItems

\* C24 witness: one of two lines was removed; the other line and its reference
\* are still there.
C24_Witness ==
  \E r \in Reqs :
    /\ Finished(r, "removeFromCart") /\ req[r].res.code = 200 /\ req[r].pre.taken
    /\ CartLines(req[r].pre, req[r].userId, req[r].productId) # {}
    /\ CartLines(Store, req[r].userId, req[r].productId) = {}
    /\ \E k \in DOMAIN cartItems :
         /\ cartItems[k].live
         /\ k \in Range(carts[cartItems[k].cartId].cartItems)

\* The units of product p on the first n stored order lines that an order
\* which is not Cancelled lists.
RECURSIVE OpenUnits(_, _)
OpenUnits(n, p) ==
  IF n = 0 THEN 0
  ELSE (IF /\ orderItems[n].productId = p
           /\ \E o \in DOMAIN orders :
                n \in Range(orders[o].orderItems) /\ orders[o].status # "Cancelled"
        THEN orderItems[n].quantity ELSE 0)
       + OpenUnits(n - 1, p)

\* C26: with no request in flight (and no store call failed), the soldUnits of
\* every product is the sum of the quantities of its order lines that belong to
\* orders whose status is not Cancelled.
C26_SoldIsOpenOrderLines ==
  (Quiescent /\ failures = 0)
  => \A p \in Products :
       products[p].exists => products[p].soldUnits = OpenUnits(Len(orderItems), p)

\* C27: when two cancelOrder requests for one Pending order have run
\* concurrently and both have been answered 200, each product has got the
\* quantity of the order's lines back exactly once: remainingUnits is what the
\* first request found plus that quantity, soldUnits what it found minus it.
C27_StockRestoredOnce ==
  \A r1, r2 \in Reqs :
    ( /\ r1 # r2
      /\ Finished(r1, "cancelOrder") /\ Finished(r2, "cancelOrder")
      /\ req[r1].orderId = req[r2].orderId
      /\ req[r1].res.code = 200 /\ req[r2].res.code = 200
      /\ req[r1].pre.taken )
    => \A p \in Products :
         LET before == req[r1].pre.products[p]
             n == HeldUnits(req[r1].order.items, p)
         IN /\ products[p].remainingUnits = before.remainingUnits + n
            /\ products[p].soldUnits = before.soldUnits - n

\* C28: the step that answers an updateProduct request 400 for a totalUnits
\* below soldUnits changes no product; the step that answers one 200 leaves its
\* product with remainingUnits shifted by the delta of totalUnits, with
\* remainingUnits + soldUnits = totalUnits and with remainingUnits >= 0, whatever
\* the requested totalUnits (0 included) and whatever ran in between.
C28_UpdateKeepsStockInvariant ==
  [][\A r \in Reqs :
       (req'[r].pc = "done" /\ req[r].pc # "done" /\ req'[r].op = "updateProduct")
       => LET p == req'[r].productId
          IN /\ req'[r].res.code = 400 => products' = products
             /\ req'[r].res.code = 200 =>
                  /\ products'[p].remainingUnits - products[p].remainingUnits
                       = products'[p].totalUnits - products[p].totalUnits
                  /\ products'[p].remainingUnits + products'[p].soldUnits
                       = products'[p].totalUnits
                  /\ products'[p].remainingUnits >= 0]_vars

\* C29: a placeOrderFromCart request answered 200, served with no other request
\* in flight, whatever the selected quantities (0 and negative ones included),
\* has raised no product's remainingUnits, has lowered no product's soldUnits,
\* and leaves no soldUnits below 0.
C29_OnlyPositiveQuantitiesMoveStock ==
  \A r \in Reqs :
    (Finished(r, "placeOrderFromCart") /\ req[r].res.code = 200 /\ req[r].pre.taken)
    => \A p \in Products :
         /\ products[p].remainingUnits <= req[r].pre.products[p].remainingUnits
         /\ products[p].soldUnits >= req[r].pre.products[p].soldUnits
         /\ products[p].soldUnits >= 0

\* C30: with no request in flight and no store failure so far, every reference
\* in a cart's cartItems list names an existing cart line of that cart, and
\* every existing cart line is referenced by its cart.
C30_CartReferencesIntact ==
  (Quiescent /\ failures = 0)
  => /\ \A c \in DOMAIN carts :
          \A id \in Range(carts[c].cartItems) :
             cartItems[id].live /\ cartItems[id].cartId = c
     /\ \A k \in DOMAIN cartItems :
          cartItems[k].live => k \in Range(carts[cartItems[k].cartId].cartItems)

=============================================================================
